---- MODULE Spec2Model ----
(***************************************************************************)
(* gif-privacy-proxy: a TLS-terminating CONNECT proxy (src/src/main.rs).   *)
(* Strings are sequences of bytes (0..255), so that equality is byte       *)
(* equality and splitting, padding and formatting are computed.            *)
(***************************************************************************)
EXTENDS Integers, Sequences, FiniteSets, TLC

VARIABLES
    pc,                 \* position of run_server's loop body
    lastResult,         \* Result of the last expression given to unwrap_or_continue!
    cur,                \* the connection the current loop iteration handles (0: none)
    http_request_line,  \* String returned by read_http_request
    rcvd_http_request,  \* HttpRequest returned by parse_http_request
    a_to_b,             \* copy_bidirectional: state of the client -> upstream direction
    b_to_a,             \* copy_bidirectional: state of the upstream -> client direction
    client_stream,      \* per connection: the client's stream (TCP, then TLS)
    dst_stream,         \* per connection: the upstream TcpStream
    clientPending,      \* connection cur: bytes the client sent, not yet read by the proxy
    dstPending,         \* connection cur: bytes the upstream sent, not yet read by the proxy
    clientOut,          \* connection cur: bytes delivered to the client
    dstOut,             \* connection cur: bytes delivered to the upstream
    log,                \* connection cur: what its iteration did (history)
    unit,               \* a call of one pure function: its argument and result
    decisions           \* the calls of is_permitted_destination so far, in order:
                        \* the target of each and what it returned

vars == <<pc, lastResult, cur, http_request_line, rcvd_http_request, a_to_b, b_to_a,
          client_stream, dst_stream, clientPending, dstPending, clientOut, dstOut,
          log, unit, decisions>>

(***************************************************************************)
(* Bounds of the model.                                                    *)
(***************************************************************************)
MaxConns == 2       \* connections queued on the listener
MaxPayload == 2     \* bytes each peer sends while the tunnel is up
MaxTextLen == 4     \* length of the generated texts given to the pure functions

Conns == 1..MaxConns

(***************************************************************************)
(* Byte strings.                                                           *)
(***************************************************************************)
SP == 32
NUL == 0
BufLen == 512

Min(a, b) == IF a < b THEN a ELSE b

\* str::to_ascii_uppercase
ToUpper(s) == [i \in 1..Len(s) |-> IF s[i] >= 97 /\ s[i] <= 122 THEN s[i] - 32 ELSE s[i]]

STR_CONNECT == <<67, 79, 78, 78, 69, 67, 84>>                    \* "CONNECT"
STR_GIPHY == <<97, 112, 105, 46, 103, 105, 112, 104, 121, 46, 99, 111, 109,
               58, 52, 52, 51>>                                  \* "api.giphy.com:443"
STR_HTTP11 == <<72, 84, 84, 80, 47, 49, 46, 49>>                 \* "HTTP/1.1"
STR_CRLFCRLF == <<13, 10, 13, 10>>                               \* "\r\n\r\n"
STR_METHOD_NOT_ALLOWED == <<77, 101, 116, 104, 111, 100, 32, 78, 111, 116, 32,
                            65, 108, 108, 111, 119, 101, 100>>   \* "Method Not Allowed"
STR_FORBIDDEN_YEAH == <<70, 111, 114, 98, 105, 100, 100, 101, 110, 32, 89, 101,
                        97, 104>>                                \* "Forbidden Yeah"
STR_OK == <<79, 75>>                                             \* "OK"

PERMITTED_DESTINATIONS == << STR_GIPHY >>

(***************************************************************************)
(* Pure functions of main.rs.                                              *)
(***************************************************************************)

\* std::str::from_utf8 on a byte slice: TRUE iff the bytes are well-formed UTF-8.
Cont(s, i) == i <= Len(s) /\ s[i] >= 128 /\ s[i] <= 191
In(s, i, lo, hi) == i <= Len(s) /\ s[i] >= lo /\ s[i] <= hi

\* Length of the well-formed UTF-8 sequence starting at s[i], 0 if there is none.
Utf8SeqLen(s, i) ==
    LET b == s[i] IN
    IF b <= 127 THEN 1
    ELSE IF b >= 194 /\ b <= 223 THEN (IF Cont(s, i+1) THEN 2 ELSE 0)
    ELSE IF b = 224 THEN (IF In(s, i+1, 160, 191) /\ Cont(s, i+2) THEN 3 ELSE 0)
    ELSE IF b = 237 THEN (IF In(s, i+1, 128, 159) /\ Cont(s, i+2) THEN 3 ELSE 0)
    ELSE IF b >= 225 /\ b <= 239 THEN (IF Cont(s, i+1) /\ Cont(s, i+2) THEN 3 ELSE 0)
    ELSE IF b = 240 THEN (IF In(s, i+1, 144, 191) /\ Cont(s, i+2) /\ Cont(s, i+3) THEN 4 ELSE 0)
    ELSE IF b >= 241 /\ b <= 243 THEN (IF Cont(s, i+1) /\ Cont(s, i+2) /\ Cont(s, i+3) THEN 4 ELSE 0)
    ELSE IF b = 244 THEN (IF In(s, i+1, 128, 143) /\ Cont(s, i+2) /\ Cont(s, i+3) THEN 4 ELSE 0)
    ELSE 0

\* The bytes are well-formed iff every byte that is not a continuation byte starts a
\* well-formed sequence and every continuation byte lies inside such a sequence.
IsCont(b) == b >= 128 /\ b <= 191

from_utf8(bytes) ==
    \A i \in 1..Len(bytes) :
        IF IsCont(bytes[i])
        THEN \E j \in 1..(i - 1) :
                /\ i - j <= 3
                /\ ~IsCont(bytes[j])
                /\ \A k \in (j + 1)..i : IsCont(bytes[k])
                /\ i < j + Utf8SeqLen(bytes, j)
        ELSE Utf8SeqLen(bytes, i) > 0

\* str::split(' ').collect::<Vec<&str>>(): the pieces between the spaces, empty
\* pieces included; a text without a space is one piece.
SpacePositions(s) == {i \in 1..Len(s) : s[i] = SP}

NthSpace(s, k) ==
    IF k = 0 THEN 0
    ELSE IF k > Cardinality(SpacePositions(s)) THEN Len(s) + 1
    ELSE CHOOSE p \in SpacePositions(s) :
            Cardinality({q \in SpacePositions(s) : q < p}) = k - 1

split(s) ==
    [k \in 1..(Cardinality(SpacePositions(s)) + 1) |->
        SubSeq(s, NthSpace(s, k - 1) + 1, NthSpace(s, k) - 1)]

\* Vec::get(i) with i counted from 0: Some(v[i]) or None.
get(v, i) == IF i + 1 <= Len(v) THEN [some |-> TRUE, val |-> v[i + 1]]
             ELSE [some |-> FALSE, val |-> <<>>]

Err == [ok |-> FALSE]
Ok(v) == [ok |-> TRUE, val |-> v]

\* Variant: a missing target becomes the empty text instead of an error.
parse_http_request_default_uri(req) ==
    LET v == split(req)
        m == get(v, 0)
        u == get(v, 1)
    IN  IF ~m.some THEN Err
        ELSE Ok([method |-> m.val, uri |-> u.val])

\* Variant: str::split_whitespace-like, empty pieces are skipped.
parse_http_request_skip_empty(req) ==
    LET v == SelectSeq(split(req), LAMBDA t : t # <<>>)
        m == get(v, 0)
        u == get(v, 1)
    IN  IF ~m.some THEN Err
        ELSE IF ~u.some THEN Err
        ELSE Ok([method |-> m.val, uri |-> u.val])

parse_http_request(req) ==
    LET v == split(req)
        m == get(v, 0)
        u == get(v, 1)
    IN  IF ~m.some THEN Err
        ELSE IF ~u.some THEN Err
        ELSE Ok([method |-> m.val, uri |-> u.val])

\* Variant: the method is compared ignoring ASCII case.
is_http_connect_ignore_case(req) == ToUpper(req.method) = STR_CONNECT

is_http_connect(req) == IF req.method = STR_CONNECT THEN TRUE ELSE FALSE

\* Variant: str::starts_with instead of equality.
is_permitted_destination_prefix(url) ==
    \E i \in 1..Len(PERMITTED_DESTINATIONS) :
        /\ Len(url) >= Len(PERMITTED_DESTINATIONS[i])
        /\ SubSeq(url, 1, Len(PERMITTED_DESTINATIONS[i])) = PERMITTED_DESTINATIONS[i]

\* Variant: an allow-list entry is removed once it has permitted a connection.
is_permitted_destination_once(url) ==
    /\ \E i \in 1..Len(PERMITTED_DESTINATIONS) : PERMITTED_DESTINATIONS[i] = url
    /\ \A j \in 1..Len(decisions) : ~decisions[j].permitted

\* Variant: the entries are compared ignoring ASCII case.
is_permitted_destination_ignore_case(url) ==
    \E i \in 1..Len(PERMITTED_DESTINATIONS) :
        ToUpper(PERMITTED_DESTINATIONS[i]) = ToUpper(url)

is_permitted_destination(url) ==
    \E i \in 1..Len(PERMITTED_DESTINATIONS) : PERMITTED_DESTINATIONS[i] = url

\* format!("{}", n) of an unsigned integer: its decimal digits.
RECURSIVE Decimal(_)
Decimal(n) == IF n < 10 THEN <<48 + n>> ELSE Decimal(n \div 10) \o <<48 + (n % 10)>>

create_http_status(status_code, status_message) ==
    STR_HTTP11 \o <<SP>> \o Decimal(status_code) \o <<SP>> \o status_message \o STR_CRLFCRLF


(***************************************************************************)
(* The peers: what a client sends first, and the tunnel's payload.         *)
(***************************************************************************)
STR_GET == <<71, 69, 84>>                                        \* "GET"
STR_GIPHY_80 == <<97, 112, 105, 46, 103, 105, 112, 104, 121, 46, 99, 111, 109,
                  58, 56, 48>>                                   \* "api.giphy.com:80"
STR_NO_SPACE == <<84, 104, 105, 115, 73, 115, 83, 111, 109, 101, 84, 101, 115,
                  116, 84, 101, 120, 116>>                       \* "ThisIsSomeTestText"
STR_LOWER_CONNECT == <<99, 111, 110, 110, 101, 99, 116>>         \* "connect"
STR_NOT_UTF8 == <<67, 79, 78, 78, 69, 67, 84, 32, 255, 32>>      \* "CONNECT \xff "

RequestHead(method, target) ==
    method \o <<SP>> \o target \o <<SP>> \o STR_HTTP11 \o STR_CRLFCRLF

\* What the client has sent when the proxy reads the request.
ClientRequests ==
    { RequestHead(STR_CONNECT, STR_GIPHY),
      RequestHead(STR_CONNECT, STR_GIPHY_80),
      RequestHead(STR_GET, STR_GIPHY),
      RequestHead(STR_GET, <<47>>),
      RequestHead(STR_LOWER_CONNECT, STR_GIPHY),
      STR_CONNECT \o <<SP>> \o STR_GIPHY,
      STR_CONNECT \o <<SP, SP>> \o STR_GIPHY \o <<SP>>,
      SubSeq(RequestHead(STR_CONNECT, STR_GIPHY) \o [i \in 1..BufLen |-> 65 + (i % 26)],
             1, BufLen + MaxPayload),
      STR_NO_SPACE,
      STR_NOT_UTF8,
      <<>> }

\* A read returns what fits the buffer, or only a first segment of what was sent:
\* "CONNECT ", or "CONNECT api.giphy.com:443 ".
FirstSegments == {Len(STR_CONNECT) + 1, Len(STR_CONNECT) + Len(STR_GIPHY) + 2}

ReadSizes(sent) ==
    {Min(Len(sent), BufLen)} \cup {k \in FirstSegments : k < Len(sent) /\ Len(sent) <= BufLen}

\* Variant: the request is peeked at, its bytes stay in the stream.
Unread_peek(sent, n) == sent

\* read (line 141) takes the n bytes it returns out of the stream; the rest stays.
Unread(sent, n) == SubSeq(sent, n + 1, Len(sent))

ClientPayload == {88}       \* "X"
UpstreamPayload == {89}     \* "Y"

(***************************************************************************)
(* run_server: one loop, one connection per iteration.                     *)
(***************************************************************************)
NoRequest == [method |-> <<>>, uri |-> <<>>]

NoLog == [read     |-> Err,         \* Ok(the bytes the read returned), or Err
          parsed   |-> FALSE,       \* parse_http_request returned Ok
          request  |-> NoRequest,   \* the HttpRequest it returned
          wrote    |-> <<>>,        \* status messages given to send_http_status, and
                                    \* whether it returned Ok
          connects |-> <<>>,        \* targets given to TcpStream::connect
          flushed  |-> FALSE,       \* the flush of line 113 returned Ok
          relayed  |-> FALSE,       \* copy_bidirectional was called
          sent     |-> 0,           \* payload bytes the client sent after the read
          rcvd     |-> 0,           \* payload bytes the upstream sent
          stream   |-> <<>>,        \* every byte the client wrote, in order
          upstream |-> <<>>,        \* every byte the upstream wrote
          exit     |-> "none"]      \* the step at which the iteration ended

UnitIdle == [fn |-> "none", arg |-> <<>>, res |-> <<>>]

Init ==
    /\ pc = "accept"
    /\ lastResult = "none"
    /\ cur = 0
    /\ http_request_line = <<>>
    /\ rcvd_http_request = NoRequest
    /\ a_to_b = "idle"
    /\ b_to_a = "idle"
    /\ client_stream = [c \in Conns |-> "queued"]
    /\ dst_stream = [c \in Conns |-> "none"]
    /\ clientPending = <<>>
    /\ dstPending = <<>>
    /\ clientOut = <<>>
    /\ dstOut = <<>>
    /\ log = NoLog
    /\ unit = UnitIdle
    /\ decisions = <<>>

\* Variant: the `?` operator instead of the macro: Err leaves run_server.
unwrap_or_return(e, next) == IF e.ok THEN next ELSE "returned"

\* Variant: the result of the upstream connect is not checked.
unwrap_or_continue_connect_unchecked(e, next) ==
    IF e.ok \/ next = "send_ok_status" THEN next ELSE "accept"

\* Variant: the result of the flush that follows the 200 is not checked.
unwrap_or_continue_flush_unchecked(e, next) ==
    IF e.ok \/ next = "copy_bidirectional" THEN next ELSE "accept"

\* Variant: the `continue` after an error status is missing, the handler goes on.
unwrap_or_continue_fall_through(e, next) ==
    IF e.ok THEN (IF next = "accept" THEN "connect" ELSE next) ELSE "accept"

\* unwrap_or_continue!(e): the value of Ok, or `continue` (back to the accept).
unwrap_or_continue(e, next) == IF e.ok THEN next ELSE "accept"

ResultName(e) == IF e.ok THEN "Ok" ELSE "Err"

\* The loop body is left (continue, or its end) when the next step is not inside it.
Leaving(next) == next \notin {"establish_tls", "read_http_request", "parse_http_request",
                              "is_http_connect", "is_permitted_destination", "connect",
                              "send_ok_status", "flush", "copy_bidirectional"}

\* Variant: the streams of an iteration are kept when the loop body is left.
Drop_nothing(stream, leaving) == stream

\* Variant: only the client's stream is closed when the loop body is left.
Drop_client_only(stream, leaving) ==
    IF leaving
    THEN [stream EXCEPT ![cur] = IF @ \in {"tcp", "tls"} THEN "closed" ELSE @]
    ELSE stream

\* The iteration's locals are dropped when the loop body is left: its streams close.
Drop(stream, leaving) ==
    IF leaving
    THEN [stream EXCEPT ![cur] = IF @ = "none" THEN "none" ELSE "closed"]
    ELSE stream

\* Bytes waiting in a stream are lost when it closes.
Discard(pending, leaving) == IF leaving THEN <<>> ELSE pending

LogExit(l, leaving, why) == IF leaving THEN [l EXCEPT !.exit = why] ELSE l

\* The queued connection the listener hands out next.
NextQueued == CHOOSE c \in Conns :
                 /\ client_stream[c] = "queued"
                 /\ \A d \in Conns : client_stream[d] = "queued" => c <= d

\* line 89: listener.accept()
Accept ==
    /\ pc = "accept"
    /\ \E e \in {Ok(0), Err} :
        LET next == unwrap_or_continue(e, "establish_tls") IN
        /\ e.ok => \E c \in Conns : client_stream[c] = "queued"
        /\ lastResult' = ResultName(e)
        /\ pc' = next
        /\ IF e.ok
           THEN /\ cur' = NextQueued
                /\ client_stream' = [client_stream EXCEPT ![NextQueued] = "tcp"]
                /\ clientPending' = <<>>
                /\ dstPending' = <<>>
                /\ clientOut' = <<>>
                /\ dstOut' = <<>>
                /\ log' = NoLog
                /\ a_to_b' = "idle"
                /\ b_to_a' = "idle"
           ELSE UNCHANGED <<cur, client_stream, clientPending, dstPending, clientOut,
                            dstOut, log, a_to_b, b_to_a>>
    /\ UNCHANGED <<http_request_line, rcvd_http_request, dst_stream, unit, decisions>>

\* lines 91-92: establish_tls(client_stream, &tls_acceptor)
EstablishTls ==
    /\ pc = "establish_tls"
    /\ \E e \in {Ok(0), Err} :
        LET next == unwrap_or_continue(e, "read_http_request") IN
        /\ lastResult' = ResultName(e)
        /\ pc' = next
        /\ client_stream' = Drop([client_stream EXCEPT ![cur] = IF e.ok THEN "tls" ELSE @],
                                 Leaving(next))
        /\ log' = LogExit(log, Leaving(next), "establish_tls")
    /\ UNCHANGED <<http_request_line, rcvd_http_request, a_to_b, b_to_a, clientPending,
                   dstPending, clientOut, dstOut, cur, dst_stream, unit, decisions>>

\* The buffer of read_http_request after a read of n bytes: [0; 512] with the
\* first n bytes overwritten.
Buffer(data) == [i \in 1..BufLen |-> IF i <= Len(data) THEN data[i] ELSE NUL]

\* lines 137-146: one read into the buffer, then from_utf8 of the whole buffer.
read_http_request(readResult) ==
    IF ~readResult.ok THEN Err
    ELSE LET buffer == Buffer(readResult.val) IN
         IF from_utf8(buffer) THEN Ok(buffer) ELSE Err

\* lines 94-95: read_http_request(&mut client_stream_tls)
ReadHttpRequest ==
    /\ pc = "read_http_request"
    /\ \E sent \in ClientRequests, failed \in BOOLEAN :
       \E n \in ReadSizes(sent) :
       \E e \in {read_http_request(IF failed THEN Err ELSE Ok(SubSeq(sent, 1, n)))} :
        LET next == unwrap_or_continue(e, "parse_http_request") IN
        /\ lastResult' = ResultName(e)
        /\ pc' = next
        /\ http_request_line' = IF e.ok THEN e.val ELSE <<>>
        /\ clientPending' = Discard(IF failed THEN sent ELSE Unread(sent, n),
                                    Leaving(next))
        /\ client_stream' = Drop(client_stream, Leaving(next))
        /\ log' = LogExit([log EXCEPT !.read = IF failed THEN Err ELSE Ok(SubSeq(sent, 1, n)),
                                      !.stream = sent],
                          Leaving(next), "read_http_request")
    /\ UNCHANGED <<rcvd_http_request, a_to_b, b_to_a, dstPending, clientOut, dstOut,
                   cur, dst_stream, unit, decisions>>

\* line 97: parse_http_request(&http_request_line)
ParseHttpRequest ==
    /\ pc = "parse_http_request"
    /\ \E e \in {parse_http_request(http_request_line)} :
        LET next == unwrap_or_continue(e, "is_http_connect") IN
        /\ lastResult' = ResultName(e)
        /\ pc' = next
        /\ rcvd_http_request' = IF e.ok THEN e.val ELSE NoRequest
        /\ client_stream' = Drop(client_stream, Leaving(next))
        /\ clientPending' = Discard(clientPending, Leaving(next))
        /\ log' = LogExit(IF e.ok THEN [log EXCEPT !.parsed = TRUE, !.request = e.val]
                          ELSE log,
                          Leaving(next), "parse_http_request")
    /\ http_request_line' = <<>>
    /\ UNCHANGED <<a_to_b, b_to_a, dstPending, clientOut, dstOut, cur, dst_stream, unit, decisions>>

\* lines 182-198: the three status messages.
unsupported_method_status == create_http_status(405, STR_METHOD_NOT_ALLOWED)
forbidden_status == create_http_status(403, STR_FORBIDDEN_YEAH)
ok_status == create_http_status(200, STR_OK)

\* Variant: the results of write_all and flush are discarded.
send_http_status_unchecked(status_msg) ==
    {[ok |-> TRUE, delivered |-> status_msg],
     [ok |-> TRUE, delivered |-> <<>>]}

\* lines 200-204: write_all then flush. The message travels as one TLS record: on
\* Ok the client has it, on Err the client has nothing or (the record went out before
\* the failure was seen) all of it.
send_http_status(status_msg) ==
    {[ok |-> TRUE, delivered |-> status_msg],
     [ok |-> FALSE, delivered |-> <<>>],
     [ok |-> FALSE, delivered |-> status_msg]}

\* send_*_status(stream) in one iteration: the message is given to
\* send_http_status, which delivers w.delivered and returns w.
SendStatus(status_msg, w, next, why) ==
    /\ lastResult' = ResultName(w)
    /\ pc' = next
    /\ clientOut' = clientOut \o w.delivered
    /\ log' = LogExit([log EXCEPT !.wrote = Append(@, [msg |-> status_msg, ok |-> w.ok])],
                      Leaving(next), why)
    /\ client_stream' = Drop(client_stream, Leaving(next))
    /\ dst_stream' = Drop(dst_stream, Leaving(next))
    /\ clientPending' = Discard(clientPending, Leaving(next))
    /\ dstPending' = Discard(dstPending, Leaving(next))

\* lines 99-102: not a CONNECT: send 405 and continue.
IsHttpConnect ==
    /\ pc = "is_http_connect"
    /\ IF ~is_http_connect(rcvd_http_request)
       THEN \E w \in send_http_status(unsupported_method_status) :
               /\ SendStatus(unsupported_method_status, w, unwrap_or_continue(w, "accept"),
                             "send_unsupported_method_status")
               /\ rcvd_http_request' = NoRequest
       ELSE /\ pc' = "is_permitted_destination"
            /\ UNCHANGED <<lastResult, clientOut, log, client_stream, dst_stream,
                           clientPending, dstPending, rcvd_http_request>>
    /\ UNCHANGED <<http_request_line, a_to_b, b_to_a, dstOut, cur, unit, decisions>>

\* lines 104-107: target not permitted: send 403 and continue.
IsPermittedDestination ==
    /\ pc = "is_permitted_destination"
    /\ \E permitted \in {is_permitted_destination(rcvd_http_request.uri)} :
          /\ decisions' = Append(decisions,
                                  [url |-> rcvd_http_request.uri, permitted |-> permitted])
          /\ IF ~permitted
             THEN \E w \in send_http_status(forbidden_status) :
                     /\ SendStatus(forbidden_status, w, unwrap_or_continue(w, "accept"),
                                   "send_forbidden_status")
                     /\ rcvd_http_request' = NoRequest
             ELSE /\ pc' = "connect"
                  /\ UNCHANGED <<lastResult, clientOut, log, client_stream, dst_stream,
                                 clientPending, dstPending, rcvd_http_request>>
    /\ UNCHANGED <<http_request_line, a_to_b, b_to_a, dstOut, cur, unit>>

\* line 109: TcpStream::connect(rcvd_http_request.uri)
Connect ==
    /\ pc = "connect"
    /\ \E e \in {Ok(0), Err} :
        LET next == unwrap_or_continue(e, "send_ok_status") IN
        /\ lastResult' = ResultName(e)
        /\ pc' = next
        /\ dst_stream' = Drop([dst_stream EXCEPT ![cur] = IF e.ok THEN "open" ELSE @],
                              Leaving(next))
        /\ client_stream' = Drop(client_stream, Leaving(next))
        /\ clientPending' = Discard(clientPending, Leaving(next))
        /\ log' = LogExit([log EXCEPT !.connects = Append(@, rcvd_http_request.uri)],
                          Leaving(next), "connect")
    /\ rcvd_http_request' = NoRequest
    /\ UNCHANGED <<http_request_line, a_to_b, b_to_a, dstPending, clientOut, dstOut,
                   cur, unit, decisions>>

\* line 111: send_ok_status(&mut client_stream_tls)
SendOkStatus ==
    /\ pc = "send_ok_status"
    /\ \E w \in send_http_status(ok_status) :
          SendStatus(ok_status, w, unwrap_or_continue(w, "flush"), "send_ok_status")
    /\ UNCHANGED <<http_request_line, rcvd_http_request, a_to_b, b_to_a, dstOut, cur, unit, decisions>>

\* line 113: client_stream_tls.flush()
Flush ==
    /\ pc = "flush"
    /\ \E e \in {Ok(0), Err} :
        LET next == unwrap_or_continue(e, "copy_bidirectional") IN
        /\ lastResult' = ResultName(e)
        /\ pc' = next
        /\ log' = LogExit([log EXCEPT !.flushed = e.ok,
                                      !.relayed = (next = "copy_bidirectional")],
                          Leaving(next), "flush")
        /\ client_stream' = Drop(client_stream, Leaving(next))
        /\ dst_stream' = Drop(dst_stream, Leaving(next))
        /\ clientPending' = Discard(clientPending, Leaving(next))
        /\ dstPending' = Discard(dstPending, Leaving(next))
        /\ a_to_b' = IF next = "copy_bidirectional" THEN "copying" ELSE "idle"
        /\ b_to_a' = IF next = "copy_bidirectional" THEN "copying" ELSE "idle"
    /\ UNCHANGED <<http_request_line, rcvd_http_request, clientOut, dstOut, cur, unit, decisions>>

(***************************************************************************)
(* line 115: io::copy_bidirectional(&mut client_stream_tls, &mut dst_stream) *)
(* Each direction copies until it reads end-of-stream, then shuts down the *)
(* write half of the other stream and is done; the call returns Ok when    *)
(* both directions are done, and Err as soon as either direction fails.    *)
(***************************************************************************)
CopyClientToUpstream ==
    /\ pc = "copy_bidirectional"
    /\ a_to_b = "copying"
    /\ clientPending # <<>>
    /\ dstOut' = Append(dstOut, Head(clientPending))
    /\ clientPending' = Tail(clientPending)
    /\ UNCHANGED <<pc, lastResult, cur, http_request_line, rcvd_http_request, a_to_b,
                   b_to_a, client_stream, dst_stream, dstPending, clientOut, log, unit, decisions>>

CopyUpstreamToClient ==
    /\ pc = "copy_bidirectional"
    /\ b_to_a = "copying"
    /\ dstPending # <<>>
    /\ clientOut' = Append(clientOut, Head(dstPending))
    /\ dstPending' = Tail(dstPending)
    /\ UNCHANGED <<pc, lastResult, cur, http_request_line, rcvd_http_request, a_to_b,
                   b_to_a, client_stream, dst_stream, clientPending, dstOut, log, unit, decisions>>

\* The client closed its sending side: the read returns 0 bytes, the direction
\* shuts down the upstream's write half and is done.
ClientEof ==
    /\ pc = "copy_bidirectional"
    /\ a_to_b = "copying"
    /\ clientPending = <<>>
    /\ a_to_b' = "done"
    /\ UNCHANGED <<pc, lastResult, cur, http_request_line, rcvd_http_request, b_to_a,
                   client_stream, dst_stream, clientPending, dstPending, clientOut,
                   dstOut, log, unit, decisions>>

\* The upstream closed its sending side.
UpstreamEof ==
    /\ pc = "copy_bidirectional"
    /\ b_to_a = "copying"
    /\ dstPending = <<>>
    /\ b_to_a' = "done"
    /\ UNCHANGED <<pc, lastResult, cur, http_request_line, rcvd_http_request, a_to_b,
                   client_stream, dst_stream, clientPending, dstPending, clientOut,
                   dstOut, log, unit, decisions>>

\* Variant: the copy returns at the first end-of-stream.
CopyCompleteEither(a, b) == a = "done" \/ b = "done"

\* copy_bidirectional returns Ok when both directions are done.
CopyComplete(a, b) == a = "done" /\ b = "done"

CopyReturns(e, why) ==
    LET next == unwrap_or_continue(e, "accept") IN
    /\ lastResult' = ResultName(e)
    /\ pc' = next
    /\ log' = LogExit(log, Leaving(next), why)
    /\ client_stream' = Drop(client_stream, Leaving(next))
    /\ dst_stream' = Drop(dst_stream, Leaving(next))
    /\ clientPending' = Discard(clientPending, Leaving(next))
    /\ dstPending' = Discard(dstPending, Leaving(next))
    /\ UNCHANGED <<a_to_b, b_to_a, http_request_line, rcvd_http_request, clientOut,
                   dstOut, cur, unit, decisions>>

CopyFinish ==
    /\ pc = "copy_bidirectional"
    /\ CopyComplete(a_to_b, b_to_a)
    /\ CopyReturns(Ok(0), "copy_ok")

\* A read or a write of either direction fails.
CopyError ==
    /\ pc = "copy_bidirectional"
    /\ ~CopyComplete(a_to_b, b_to_a)
    /\ CopyReturns(Err, "copy_err")

\* The client sends a byte after the request was read.
ClientSend ==
    /\ pc \in {"parse_http_request", "is_http_connect", "is_permitted_destination",
               "connect", "send_ok_status", "flush", "copy_bidirectional"}
    /\ client_stream[cur] = "tls"
    /\ a_to_b # "done"
    /\ log.sent < MaxPayload
    /\ \E b \in ClientPayload :
          /\ clientPending' = Append(clientPending, b)
          /\ log' = [log EXCEPT !.sent = @ + 1, !.stream = Append(@, b)]
    /\ UNCHANGED <<pc, lastResult, cur, http_request_line, rcvd_http_request, a_to_b,
                   b_to_a, client_stream, dst_stream, dstPending, clientOut, dstOut, unit, decisions>>

\* The upstream sends a byte on the connection the proxy opened.
UpstreamSend ==
    /\ cur \in Conns
    /\ dst_stream[cur] = "open"
    /\ b_to_a # "done"
    /\ log.rcvd < MaxPayload
    /\ \E b \in UpstreamPayload :
          /\ dstPending' = Append(dstPending, b)
          /\ log' = [log EXCEPT !.rcvd = @ + 1, !.upstream = Append(@, b)]
    /\ UNCHANGED <<pc, lastResult, cur, http_request_line, rcvd_http_request, a_to_b,
                   b_to_a, client_stream, dst_stream, clientPending, clientOut, dstOut, unit, decisions>>

Next ==
    \/ Accept
    \/ EstablishTls
    \/ ReadHttpRequest
    \/ ParseHttpRequest
    \/ IsHttpConnect
    \/ IsPermittedDestination
    \/ Connect
    \/ SendOkStatus
    \/ Flush
    \/ CopyClientToUpstream
    \/ CopyUpstreamToClient
    \/ ClientEof
    \/ UpstreamEof
    \/ CopyFinish
    \/ CopyError
    \/ ClientSend
    \/ UpstreamSend

Spec == Init /\ [][Next]_vars

TypeOK ==
    /\ pc \in {"accept", "establish_tls", "read_http_request", "parse_http_request",
               "is_http_connect", "is_permitted_destination", "connect",
               "send_ok_status", "flush", "copy_bidirectional", "returned"}
    /\ lastResult \in {"none", "Ok", "Err"}
    /\ cur \in 0..MaxConns
    /\ \A c \in Conns :
        /\ client_stream[c] \in {"queued", "tcp", "tls", "closed"}
        /\ dst_stream[c] \in {"none", "open", "closed"}


(***************************************************************************)
(* The pure functions called on their own, as the unit tests call them:    *)
(* the argument is drawn in the initial state, a call stores the result.   *)
(***************************************************************************)
UnitAlphabet == {SP, 71, 47}        \* " ", "G", "/"

GeneratedTexts == UNION {[1..k -> UnitAlphabet] : k \in 0..MaxTextLen}

\* The inputs of the tests of lines 219-312.
STR_DIFFERENT_URL == <<100, 105, 102, 102, 101, 114, 101, 110, 116, 46, 117, 114, 108,
                       46, 99, 111, 109, 58, 52, 52, 51>>     \* "different.url.com:443"
STR_EXAMPLE == <<101, 120, 97, 109, 112, 108, 101, 46, 99, 111, 109, 58, 52, 52,
                 51>>                                         \* "example.com:443"
STR_SOME_TEXT == <<84, 104, 105, 115, 32, 105, 115, 32, 115, 111, 109, 101, 32, 116,
                   101, 115, 116, 32, 116, 101, 120, 116>>    \* "This is some test text"
STR_HTTPS == <<104, 116, 116, 112, 115, 58, 47, 47>>          \* "https://"

TestTexts ==
    { STR_GIPHY, STR_GIPHY_80, STR_DIFFERENT_URL,
      RequestHead(STR_CONNECT, STR_EXAMPLE),
      RequestHead(STR_GET, <<47>>),
      STR_SOME_TEXT, STR_NO_SPACE, <<>> }

\* Texts one edit away from a permitted destination.
NearPermitted ==
    UNION { {[s EXCEPT ![i] = IF @ >= 97 /\ @ <= 122 THEN @ - 32 ELSE @ + 1] : i \in 1..Len(s)}
            \cup {SubSeq(s, 1, i - 1) \o SubSeq(s, i + 1, Len(s)) : i \in 1..Len(s)}
            \cup {s \o <<b>> : b \in {47, SP, NUL, 10}}
            \cup {<<b>> \o s : b \in {47, SP}}
            \cup {STR_HTTPS \o s, ToUpper(s), s \o s}
          : s \in {PERMITTED_DESTINATIONS[i] : i \in 1..Len(PERMITTED_DESTINATIONS)} }

UnitTexts == GeneratedTexts \cup TestTexts \cup NearPermitted

UnitInit ==
    /\ pc = "accept"
    /\ lastResult = "none"
    /\ cur = 0
    /\ http_request_line = <<>>
    /\ rcvd_http_request = NoRequest
    /\ a_to_b = "idle"
    /\ b_to_a = "idle"
    /\ client_stream = [c \in Conns |-> "queued"]
    /\ dst_stream = [c \in Conns |-> "none"]
    /\ clientPending = <<>>
    /\ dstPending = <<>>
    /\ clientOut = <<>>
    /\ dstOut = <<>>
    /\ log = NoLog
    /\ unit \in {[fn |-> "none", arg |-> t, res |-> <<>>] : t \in UnitTexts}
    /\ decisions = <<>>

ServerUnchanged ==
    UNCHANGED <<pc, lastResult, cur, http_request_line, rcvd_http_request, a_to_b, b_to_a,
                client_stream, dst_stream, clientPending, dstPending, clientOut, dstOut,
                log, decisions>>

CallParseHttpRequest ==
    /\ unit.fn = "none"
    /\ unit' = [fn |-> "parse_http_request", arg |-> unit.arg,
                res |-> parse_http_request(unit.arg)]
    /\ ServerUnchanged

CallIsPermittedDestination ==
    /\ unit.fn = "none"
    /\ unit' = [fn |-> "is_permitted_destination", arg |-> unit.arg,
                res |-> is_permitted_destination(unit.arg)]
    /\ ServerUnchanged

UnitNext ==
    \/ CallParseHttpRequest
    \/ CallIsPermittedDestination

UnitSpec == UnitInit /\ [][UnitNext]_vars


(***************************************************************************)
(* Properties. The texts they name are spelled out here, independently of  *)
(* the definitions above.                                                  *)
(***************************************************************************)
LIT_CONNECT == <<67, 79, 78, 78, 69, 67, 84>>
LIT_GET == <<71, 69, 84>>
LIT_ALLOWED == <<97, 112, 105, 46, 103, 105, 112, 104, 121, 46, 99, 111, 109, 58, 52,
                 52, 51>>                   \* "api.giphy.com:443"
LIT_403 == <<72, 84, 84, 80, 47, 49, 46, 49, 32, 52, 48, 51, 32, 70, 111, 114, 98, 105,
             100, 100, 101, 110, 13, 10, 13, 10>>
                                            \* "HTTP/1.1 403 Forbidden\r\n\r\n"
LIT_405 == <<72, 84, 84, 80, 47, 49, 46, 49, 32, 52, 48, 53, 32, 77, 101, 116, 104, 111,
             100, 32, 78, 111, 116, 32, 65, 108, 108, 111, 119, 101, 100, 13, 10, 13, 10>>
                                            \* "HTTP/1.1 405 Method Not Allowed\r\n\r\n"
LIT_200 == <<72, 84, 84, 80, 47, 49, 46, 49, 32, 50, 48, 48, 32, 79, 75, 13, 10, 13, 10>>
                                            \* "HTTP/1.1 200 OK\r\n\r\n"

Handled == cur \in Conns
ClientClosed == Handled /\ client_stream[cur] = "closed"
UpstreamContacted == log.connects # <<>> \/ (Handled /\ dst_stream[cur] # "none")
Queued == \E c \in Conns : client_stream[c] = "queued"
HasSpace(t) == \E i \in 1..Len(t) : t[i] = 32

\* C1: an upstream connection is attempted for a connection only if its parsed
\* method is exactly "CONNECT" and its parsed target is byte-equal to the allow-list
\* entry; for any other method or target no upstream is contacted.
C1_UpstreamOnlyForPermittedConnect ==
    /\ UpstreamContacted =>
          /\ log.parsed
          /\ log.request.method = LIT_CONNECT
          /\ log.request.uri = LIT_ALLOWED
          /\ \A i \in 1..Len(log.connects) : log.connects[i] = LIT_ALLOWED
    /\ (Handled /\ dst_stream[cur] # "none") => log.connects # <<>>

C1_Witness ==
    /\ Handled
    /\ dst_stream[cur] = "open"
    /\ log.connects = <<LIT_ALLOWED>>

\* C2: while one connection is in a handling step that has not completed, the
\* listener can still accept a second, queued connection.
C2_AcceptWhileHandling ==
    (Handled /\ client_stream[cur] \in {"tcp", "tls"} /\ Queued)
        => ENABLED (Accept /\ lastResult' = "Ok")

\* C3: no failure of a step ends the loop: after an Err the loop is at the accept
\* again, able to take the next queued connection, and run_server has not returned.
C3_FailureReturnsToAccept ==
    /\ pc # "returned"
    /\ lastResult = "Err" =>
          /\ pc = "accept"
          /\ Queued => ENABLED (Accept /\ lastResult' = "Ok")

C3_Witness ==
    /\ lastResult = "Err"
    /\ log.exit = "copy_err"
    /\ pc = "accept"
    /\ Queued

\* C4: a CONNECT to a target outside the allow-list is answered with exactly
\* "HTTP/1.1 403 Forbidden\r\n\r\n", and the connection is closed.
C4_Forbidden403Exact ==
    (/\ log.parsed
     /\ log.request.method = LIT_CONNECT
     /\ log.request.uri # LIT_ALLOWED
     /\ pc \notin {"is_http_connect", "is_permitted_destination"})
        => /\ Len(log.wrote) = 1
           /\ log.wrote[1].msg = LIT_403
           /\ log.wrote[1].ok => clientOut = LIT_403
           /\ ClientClosed

\* C5: a request whose method is not exactly "CONNECT" is answered with exactly
\* "HTTP/1.1 405 Method Not Allowed\r\n\r\n" whatever its target, never with 403,
\* and the connection is closed.
C5_NonConnectGets405 ==
    (log.parsed /\ log.request.method # LIT_CONNECT /\ pc # "is_http_connect")
        => /\ Len(log.wrote) = 1
           /\ log.wrote[1].msg = LIT_405
           /\ log.wrote[1].ok => clientOut = LIT_405
           /\ clientOut \in {<<>>, LIT_405}
           /\ log.exit = "send_unsupported_method_status"
           /\ log.connects = <<>>
           /\ ClientClosed

C5_Witness ==
    /\ log.parsed
    /\ log.request.method = LIT_GET
    /\ log.request.uri = LIT_ALLOWED
    /\ log.wrote = <<[msg |-> LIT_405, ok |-> TRUE]>>
    /\ ClientClosed

\* The status bytes given to the client stream of the current connection.
StatusBytes == IF log.wrote = <<>> THEN <<>> ELSE log.wrote[1].msg

\* C6: "HTTP/1.1 200 OK\r\n\r\n" is written only after the upstream connection was
\* opened, and no byte is copied in either direction (the relay is not entered)
\* unless that response was written and flushed without error.
C6_OkBeforeRelay ==
    /\ \A i \in 1..Len(log.wrote) :
          log.wrote[i].msg = LIT_200 => (Handled /\ dst_stream[cur] # "none")
    /\ (\/ log.relayed
        \/ pc = "copy_bidirectional"
        \/ dstOut # <<>>
        \/ Len(clientOut) > Len(StatusBytes))
        => /\ log.wrote = <<[msg |-> LIT_200, ok |-> TRUE]>>
           /\ log.flushed
           /\ Len(clientOut) >= Len(LIT_200)
           /\ SubSeq(clientOut, 1, Len(LIT_200)) = LIT_200

C6_Witness ==
    /\ pc = "copy_bidirectional"
    /\ dstOut # <<>>
    /\ Len(clientOut) > Len(LIT_200)

SilentlyClosed ==
    /\ log.wrote = <<>>
    /\ clientOut = <<>>
    /\ ~UpstreamContacted
    /\ dstOut = <<>>
    /\ ClientClosed

C8_BadRequestSilentlyClosed ==
    /\ log.exit \in {"establish_tls", "read_http_request", "parse_http_request"}
          => SilentlyClosed
    /\ (Handled /\ pc \notin {"establish_tls", "read_http_request"} /\ ~log.read.ok)
          => (SilentlyClosed /\ log.exit \in {"establish_tls", "read_http_request"})
    /\ (log.read.ok /\ ~from_utf8(log.read.val))
          => (SilentlyClosed /\ log.exit = "read_http_request")
    /\ (log.read.ok /\ from_utf8(log.read.val) /\ ~HasSpace(log.read.val)
        /\ pc # "parse_http_request")
          => (SilentlyClosed /\ log.exit = "parse_http_request")

C8_Witness ==
    /\ log.read.ok
    /\ from_utf8(log.read.val)
    /\ ~HasSpace(log.read.val)
    /\ log.read.val # <<>>
    /\ log.exit = "parse_http_request"
    /\ ClientClosed

\* C9: is_permitted_destination(s) is true iff s is byte-equal to the allow-list
\* entry "api.giphy.com:443": any other port, host, letter case, added scheme, slash
\* or trailing byte gives false, and so does the empty text.
C9_PermittedIffExact ==
    unit.fn = "is_permitted_destination" =>
        /\ unit.res \in BOOLEAN
        /\ unit.res <=> (unit.arg = LIT_ALLOWED)
        /\ unit.arg = <<>> => ~unit.res

C9_Witness ==
    /\ unit.fn = "is_permitted_destination"
    /\ unit.arg = LIT_ALLOWED \o <<47>>
    /\ unit.res = FALSE

\* C10: parse_http_request fails iff the text holds no space; otherwise the method
\* is the text before the first space and the target the text between the first
\* space and the second (or the end), whatever follows.
C10_ParseFirstTwoTokens ==
    unit.fn = "parse_http_request" =>
        LET t == unit.arg
            r == unit.res
        IN  IF ~HasSpace(t) THEN ~r.ok
            ELSE /\ r.ok
                 /\ ~HasSpace(r.val.method)
                 /\ ~HasSpace(r.val.uri)
                 /\ LET n == Len(r.val.method) + 1 + Len(r.val.uri) IN
                    /\ n <= Len(t)
                    /\ SubSeq(t, 1, n) = r.val.method \o <<32>> \o r.val.uri
                    /\ n < Len(t) => t[n + 1] = 32

C10_Witness ==
    /\ unit.fn = "parse_http_request"
    /\ unit.arg = <<84, 104, 105, 115, 32, 105, 115, 32, 115, 111, 109, 101, 32, 116,
                    101, 115, 116, 32, 116, 101, 120, 116>>    \* "This is some test text"
    /\ unit.res = [ok |-> TRUE, val |-> [method |-> <<84, 104, 105, 115>>,
                                         uri |-> <<105, 115>>]]

\* C11: the text given to parse_http_request is exactly the bytes the read returned,
\* the empty text for a read of zero bytes, so a read that returns exactly
\* "CONNECT api.giphy.com:443" is authorised: an upstream connection is attempted.
C11_ParsedTextIsBytesRead ==
    /\ (log.read.ok /\ pc = "parse_http_request") => http_request_line = log.read.val
    /\ (/\ log.read.ok
        /\ log.read.val = LIT_CONNECT \o <<32>> \o LIT_ALLOWED
        /\ pc \notin {"parse_http_request", "is_http_connect", "is_permitted_destination"})
          => log.connects = <<LIT_ALLOWED>>

IsPrefix(a, b) == Len(a) <= Len(b) /\ SubSeq(b, 1, Len(a)) = a

\* Everything the client wrote on its connection, in order.
ClientStream == log.stream

\* The client's bytes that the request read did not return.
UnreadBytes ==
    IF log.read.ok
    THEN SubSeq(log.stream, Len(log.read.val) + 1, Len(log.stream))
    ELSE log.stream

\* The bytes that follow the request head, which ends with the first empty line.
AfterRequest(t) ==
    LET ends == {i \in 4..Len(t) : SubSeq(t, i - 3, i) = <<13, 10, 13, 10>>}
    IN  IF ends = {} THEN <<>>
        ELSE SubSeq(t, (CHOOSE i \in ends : \A j \in ends : i <= j) + 1, Len(t))

\* C12: for a CONNECT to the allow-listed target whose upstream connect succeeded,
\* the one status is "HTTP/1.1 200 OK\r\n\r\n", the bytes delivered to the upstream
\* are always a prefix of the bytes the client wrote after its request, and the
\* bytes delivered to the client after the 200 are a prefix of what the upstream wrote.
C12_TransparentRelay ==
    (/\ Handled
     /\ log.parsed
     /\ log.request.method = LIT_CONNECT
     /\ log.request.uri = LIT_ALLOWED
     /\ dst_stream[cur] # "none"
     /\ pc # "send_ok_status")
        => /\ Len(log.wrote) = 1
           /\ log.wrote[1].msg = LIT_200
           /\ IsPrefix(dstOut, AfterRequest(ClientStream))
           /\ \/ clientOut = <<>>
              \/ /\ IsPrefix(LIT_200, clientOut)
                 /\ IsPrefix(SubSeq(clientOut, Len(LIT_200) + 1, Len(clientOut)),
                             log.upstream)

\* The lifecycle state of connection c as its rank in the order Accepted (1),
\* TlsEstablished (2), RequestRead (3), Authorized (4), UpstreamConnected (5),
\* Relaying (6), Closed (7); 0 before the accept, -1 for a connection that is open
\* while the loop is not at one of its steps.
Stage(c) ==
    IF client_stream[c] = "queued" THEN 0
    ELSE IF client_stream[c] = "closed" THEN 7
    ELSE IF c # cur THEN -1
    ELSE CASE pc = "establish_tls" -> 1
           [] pc = "read_http_request" -> 2
           [] pc \in {"parse_http_request", "is_http_connect",
                      "is_permitted_destination"} -> 3
           [] pc = "connect" -> 4
           [] pc \in {"send_ok_status", "flush"} -> 5
           [] pc = "copy_bidirectional" -> 6
           [] OTHER -> -1

\* C13: every step leaves each connection in its lifecycle state, or moves it to the
\* next state of Accepted, TlsEstablished, RequestRead, Authorized,
\* UpstreamConnected, Relaying, or to Closed; a step that fails closes its
\* connection, and a Closed connection stays Closed with its upstream not reopened.
C13_ForwardOnly ==
    [][\A c \in Conns :
          /\ Stage(c) \in 0..7
          /\ Stage(c)' \in 0..7
          /\ Stage(c)' \in {Stage(c), Stage(c) + 1, 7}
          /\ Stage(c) = 0 => Stage(c)' \in {0, 1}
          /\ Stage(c) = 7 => (Stage(c)' = 7 /\ dst_stream'[c] = dst_stream[c])
          /\ (c = cur /\ pc # "accept" /\ lastResult' = "Err") => Stage(c)' = 7]_vars

C13_Witness ==
    /\ cur = 2
    /\ Stage(1) = 7
    /\ Stage(2) = 6
    /\ UnreadBytes # <<>>

ConnectFailed == Handled /\ log.connects # <<>> /\ dst_stream[cur] = "none"

\* C14: when the upstream connect fails for an authorised CONNECT, no status is
\* written to the client, neither the 200 nor an error status, nothing is relayed,
\* and the connection is closed.
C14_ConnectFailureSilent ==
    ConnectFailed =>
        /\ log.wrote = <<>>
        /\ clientOut = <<>>
        /\ dstOut = <<>>
        /\ ~log.relayed
        /\ ClientClosed
        /\ log.exit = "connect"
        /\ pc = "accept"

C14_Witness ==
    /\ ConnectFailed
    /\ log.request.method = LIT_CONNECT
    /\ log.request.uri = LIT_ALLOWED
    /\ log.connects = <<LIT_ALLOWED>>
    /\ log.exit = "connect"
    /\ lastResult = "Err"

StatusWriteFailed == \E i \in 1..Len(log.wrote) : ~log.wrote[i].ok

FlushFailed ==
    /\ log.wrote = <<[msg |-> LIT_200, ok |-> TRUE]>>
    /\ ~log.flushed
    /\ pc # "flush"

\* C15: when the write or the flush of a status fails, the connection is abandoned:
\* the status is not written again and the connection is closed; when it is the 200
\* that cannot be written, or flushed, after the upstream connected, the relay is
\* never entered, no client byte reaches the upstream, and the upstream is closed.
C15_StatusFailureAbandons ==
    /\ StatusWriteFailed =>
          /\ Len(log.wrote) = 1
          /\ log.exit \in {"send_unsupported_method_status", "send_forbidden_status",
                           "send_ok_status"}
          /\ log.exit = "send_ok_status" <=> log.wrote[1].msg = LIT_200
    /\ (StatusWriteFailed \/ FlushFailed) =>
          /\ Handled
          /\ pc = "accept"
          /\ lastResult = "Err"
          /\ ClientClosed
          /\ ~log.relayed
          /\ dstOut = <<>>
          /\ dst_stream[cur] = IF log.connects = <<>> THEN "none" ELSE "closed"
    /\ FlushFailed => log.exit = "flush"

C15_Witness ==
    /\ FlushFailed
    /\ log.exit = "flush"
    /\ UnreadBytes # <<>>
    /\ dstOut = <<>>
    /\ dst_stream[cur] = "closed"

\* C16: at every point of the execution, each authorisation decision made so far is
\* the one the allow-list with its single entry "api.giphy.com:443" gives, so two
\* decisions for the same target, in the same or in different connections, agree.
C16_AllowListStable ==
    /\ PERMITTED_DESTINATIONS = <<LIT_ALLOWED>>
    /\ \A i \in 1..Len(decisions) :
          /\ decisions[i].permitted <=> (decisions[i].url = LIT_ALLOWED)
          /\ \A j \in 1..Len(decisions) :
                decisions[i].url = decisions[j].url
                    => decisions[i].permitted = decisions[j].permitted

C16_Witness ==
    /\ Len(decisions) = 2
    /\ decisions[1] = [url |-> LIT_ALLOWED, permitted |-> TRUE]
    /\ decisions[2] = [url |-> LIT_ALLOWED, permitted |-> TRUE]
    /\ cur = 2
    /\ log.connects = <<LIT_ALLOWED>>

\* The three digits of a status line "HTTP/1.1 NNN reason\r\n\r\n".
StatusCode(msg) == SubSeq(msg, 10, 12)

ErrorCodes == {<<52, 48, 53>>, <<52, 48, 51>>}     \* "405", "403"

\* C17: a connection is given at most one status line, its code is 405, 403 or 200,
\* and what the client receives starts with it; after a 405 or a 403 the connection
\* is closed: nothing more is written to the client, no upstream is contacted and
\* nothing is relayed.
C17_AtMostOneStatus ==
    /\ Len(log.wrote) <= 1
    /\ \A i \in 1..Len(log.wrote) :
          /\ IsPrefix(<<72, 84, 84, 80, 47, 49, 46, 49, 32>>, log.wrote[i].msg)
          /\ StatusCode(log.wrote[i].msg) \in ErrorCodes \cup {<<50, 48, 48>>}
    /\ clientOut # <<>> => (log.wrote # <<>> /\ IsPrefix(log.wrote[1].msg, clientOut))
    /\ (log.wrote # <<>> /\ StatusCode(log.wrote[1].msg) \in ErrorCodes) =>
          /\ clientOut \in {<<>>, log.wrote[1].msg}
          /\ ClientClosed
          /\ log.connects = <<>>
          /\ dst_stream[cur] = "none"
          /\ ~log.relayed
          /\ dstOut = <<>>

C17_Witness ==
    /\ log.wrote = <<[msg |-> LIT_405, ok |-> TRUE]>>
    /\ clientOut = LIT_405
    /\ UnreadBytes # <<>>
    /\ ClientClosed
    /\ dstOut = <<>>

\* C18: a connection the loop is no longer handling holds no open stream: its client
\* stream is closed, and so is its upstream stream if one was opened, whatever the
\* step at which its iteration ended; when the loop is back at the accept no stream
\* of any connection is open.
C18_NoStreamLeftOpen ==
    \A c \in Conns :
        /\ (c # cur \/ pc = "accept") =>
              /\ client_stream[c] \in {"queued", "closed"}
              /\ dst_stream[c] \in {"none", "closed"}
        /\ client_stream[c] = "closed" => dst_stream[c] # "open"
        /\ client_stream[c] = "queued" => dst_stream[c] = "none"

C18_Witness ==
    /\ cur = 2
    /\ pc = "accept"
    /\ client_stream = <<"closed", "closed">>
    /\ dst_stream = <<"closed", "closed">>
    /\ log.exit = "flush"

\* C19: the bytes delivered to the upstream are, in order and from the first, the
\* client's bytes that the request read did not return, the rest of a request head
\* that came in more than one read included: no byte the read returned is among
\* them, during the relay every such byte is delivered or waiting to be, none
\* skipped, and a relay that ends without an error has delivered them all.
C19_UnreadBytesForwarded ==
    /\ IsPrefix(dstOut, UnreadBytes)
    /\ pc = "copy_bidirectional" => dstOut \o clientPending = UnreadBytes
    /\ log.exit = "copy_ok" => dstOut = UnreadBytes
    /\ ~log.relayed => dstOut = <<>>

C19_Witness ==
    /\ log.read.ok
    /\ log.read.val = LIT_CONNECT \o <<32>> \o LIT_ALLOWED \o <<32>>
    /\ log.exit = "copy_ok"
    /\ dstOut = <<72, 84, 84, 80, 47, 49, 46, 49, 13, 10, 13, 10, 88>>  \* "HTTP/1.1\r\n\r\nX"

====
